---- MODULE Spec2Model ----
(***************************************************************************)
(* A model of src/utils.py (kaleab-k/dd_exp): the polytope analyser        *)
(* get_polytopes and its region identifiers, the Gini impurity functions,  *)
(* the Gaussian XOR generator, the Net constructor and the experiment      *)
(* driver run_experiment.                                                  *)
(*                                                                         *)
(* Real values are held exactly: a pre-activation is an integer number of  *)
(* halves (so the last layer's threshold 0.5 is the integer 1), a Gini     *)
(* impurity is a fraction <<numerator, denominator>>.  A 64-bit integer is *)
(* a little-endian sequence of 16-bit limbs, added with carry, the carry   *)
(* out of the top limb dropped, as the machine does.                       *)
(***************************************************************************)
EXTENDS Integers, Sequences, FiniteSets, TLC

VARIABLES
    \* region identifiers of two activation patterns
    pattern_a, pattern_b, ident_a, ident_b,
    \* get_polytopes: the model's Linear layers, the batch, and what the call
    \* returned without and with penultimate mode
    model, train_x, poly_ret,
    \* Net.__init__: the constructor's arguments and self.sequential
    net_args, sequential,
    \* generate_gaussian_parity: its arguments and what it returned
    gp_n, gp_angle, gp_ret,
    \* the Gini functions: a batch's region identifiers, the 0/1 predictions
    \* of its points, and the last call with what it returned
    polytope_memberships, predicts, gini_ret,
    \* run_experiment: whether a CUDA device exists, the arguments, the
    \* position in the function, the loop counters, the number of get_dataset
    \* calls so far, the data objects in scope, the lists of the current
    \* repetition, rep_full_list, the exception raised, the result returned,
    \* and for every capacity step the data objects it was run on
    cuda_available, depth, iterations, reps, pc, rep, step_i, dataset_calls,
    data, lists, rep_full_list, run_error, result, trained_on

idVars == <<pattern_a, pattern_b, ident_a, ident_b>>
polyVars == <<model, train_x, poly_ret>>
netVars == <<net_args, sequential>>
gpVars == <<gp_n, gp_angle, gp_ret>>
giniVars == <<polytope_memberships, predicts, gini_ret>>
runVars == <<cuda_available, depth, iterations, reps, pc, rep, step_i,
             dataset_calls, data, lists, rep_full_list, run_error, result,
             trained_on>>
vars == <<idVars, polyVars, netVars, gpVars, giniVars, runVars>>

(***************************************************************************)
(* Bounds of the model.                                                    *)
(***************************************************************************)
\* longest activation pattern whose identifier is computed
MaxPatternLen == 65
\* most points in a batch given to get_polytopes
MaxBatch == 3
\* most Linear layers in a model given to get_polytopes
MaxLayers == 2
\* largest n_hidden and hidden_size given to Net
MaxHidden == 3
\* largest sample count |n| given to generate_gaussian_parity
MaxN == 9
\* most points in a batch given to the Gini functions
MaxPoints == 3
\* largest count given to gini_impurity directly
MaxCount == 3
\* largest iterations and reps given to run_experiment
MaxIterations == 7
MaxReps == 2

(***************************************************************************)
(* 64-bit integer arithmetic (numpy int64), line 464.                      *)
(***************************************************************************)
WordBits == 64
LimbBase == 2 ^ 16
NumLimbs == WordBits \div 16

ZeroWord == [k \in 1..NumLimbs |-> 0]
OneWord == [k \in 1..NumLimbs |-> IF k = 1 THEN 1 ELSE 0]

RECURSIVE AddLimbs(_, _, _, _)
AddLimbs(a, b, k, carry) ==
    IF k > NumLimbs THEN <<>>
    ELSE <<(a[k] + b[k] + carry) % LimbBase>>
         \o AddLimbs(a, b, k + 1, (a[k] + b[k] + carry) \div LimbBase)

\* a + b in int64: the carry out of bit 63 is lost
AddWord(a, b) == AddLimbs(a, b, 1, 0)

\* bit * w for a mask bit (0 or 1) and an int64 w
MulBit(bit, w) == IF bit = 1 THEN w ELSE ZeroWord

\* 2 ** np.arange(0, U): element i (from 0) is 2^i wrapped to int64
RECURSIVE PowersFrom(_, _, _)
PowersFrom(acc, w, U) ==
    IF Len(acc) >= U THEN acc
    ELSE PowersFrom(Append(acc, w), AddWord(w, w), U)

PowersOfTwo(U) == PowersFrom(<<>>, OneWord, U)

\* np.tensordot(row, powers, axes = 1) for one row of mask bits
RECURSIVE DotWord(_, _, _)
DotWord(bits, pows, k) ==
    IF k > Len(bits) THEN ZeroWord
    ELSE AddWord(MulBit(bits[k], pows[k]), DotWord(bits, pows, k + 1))

\* the Region Identifier of one concatenated activation pattern
RegionId(bits) == DotWord(bits, PowersOfTwo(Len(bits)), 1)

(***************************************************************************)
(* get_polytopes, lines 441-468.  A Linear layer is its weight matrix (one *)
(* row per output unit) and its bias; has_bias is FALSE when layer.bias is *)
(* None.  Inputs and biases are in halves, weights are whole numbers.      *)
(***************************************************************************)
RECURSIVE DotFrom(_, _, _)
DotFrom(x, w, k) ==
    IF k > Len(x) THEN 0 ELSE x[k] * w[k] + DotFrom(x, w, k + 1)

\* np.matmul(last_activations, weights.T) + bias, line 454
PreActivation(acts, layer) ==
    [p \in 1..Len(acts) |->
        [j \in 1..Len(layer.weight) |->
            DotFrom(acts[p], layer.weight[j], 1) + layer.bias[j]]]

\* the threshold 0 for every layer, the last one too
Threshold_AlwaysZero(is_last) == 0

\* the thresholds of lines 455-458: 0.5 (one half) for the last layer, 0 else
Threshold(is_last) == IF is_last THEN 1 ELSE 0

\* (preactivation > threshold).astype('int')
BinaryPreactivation(pre, is_last) ==
    [p \in 1..Len(pre) |->
        [j \in 1..Len(pre[p]) |->
            IF pre[p][j] > Threshold(is_last) THEN 1 ELSE 0]]

\* preactivation * binary_preactivation, line 460
MaskedActivation(pre, bin) ==
    [p \in 1..Len(pre) |-> [j \in 1..Len(pre[p]) |-> pre[p][j] * bin[p][j]]]

\* what the call captures as penultimate_act at the last layer, lines 462-463
PenultimateCapture(pre, masked) == masked

\* whether line 453-454 run for this layer, and the exception if not
LayerFault(acts, layer) ==
    IF ~layer.has_bias THEN "AttributeError"
    ELSE IF \E p \in 1..Len(acts) :
               \E j \in 1..Len(layer.weight) :
                   Len(acts[p]) # Len(layer.weight[j])
         THEN "ValueError"
         ELSE "ok"

\* the loop of lines 452-463 from layer layer_id (from 1) on; preacts keeps
\* each layer's preactivation, which the code overwrites
RECURSIVE LayerLoop(_, _, _, _, _, _, _)
LayerLoop(layers, layer_id, last_activations, memberships, penultimate_act, penultimate, preacts) ==
    IF layer_id > Len(layers)
    THEN [status |-> "ok", memberships |-> memberships,
          last_activations |-> last_activations,
          penultimate_act |-> penultimate_act, preacts |-> preacts]
    ELSE IF LayerFault(last_activations, layers[layer_id]) # "ok"
    THEN [status |-> LayerFault(last_activations, layers[layer_id]),
          memberships |-> memberships,
          last_activations |-> last_activations,
          penultimate_act |-> penultimate_act, preacts |-> preacts]
    ELSE LET is_last == layer_id = Len(layers)
             pre == PreActivation(last_activations, layers[layer_id])
             bin == BinaryPreactivation(pre, is_last)
             masked == MaskedActivation(pre, bin)
         IN  LayerLoop(layers, layer_id + 1, masked, Append(memberships, bin),
                       IF penultimate /\ is_last
                       THEN PenultimateCapture(pre, masked)
                       ELSE penultimate_act,
                       penultimate, Append(preacts, pre))

\* np.concatenate(polytope_memberships, axis = 1), row p
RECURSIVE ConcatRow(_, _, _)
ConcatRow(memberships, p, k) ==
    IF k > Len(memberships) THEN <<>>
    ELSE memberships[k][p] \o ConcatRow(memberships, p, k + 1)

\* the second value returned, lines 466-468
SecondOutput(loop, penultimate) ==
    IF penultimate THEN loop.penultimate_act ELSE loop.last_activations

get_polytopes(mdl, x, penultimate) ==
    LET loop == LayerLoop(mdl, 1, x, <<>>, <<>>, penultimate, <<>>)
    IN  IF loop.status # "ok"
        THEN [status |-> loop.status, poly |-> <<>>, act |-> <<>>]
        ELSE [status |-> "ok",
              poly |-> [p \in 1..Len(x) |->
                           RegionId(ConcatRow(loop.memberships, p, 1))],
              act |-> SecondOutput(loop, penultimate)]

\* the count without np.unique
NumPoly_NoUnique(poly) == Len(poly)

\* n_poly = len(np.unique(poly[0])), line 255
NumPoly(poly) == Cardinality({poly[p] : p \in 1..Len(poly)})

\* the units that contribute a bit to the pattern
RECURSIVE TotalUnits(_, _)
TotalUnits(mdl, k) ==
    IF k > Len(mdl) THEN 0 ELSE Len(mdl[k].weight) + TotalUnits(mdl, k + 1)

(***************************************************************************)
(* generate_gaussian_parity, lines 21-45.  A point is the index of the     *)
(* Gaussian it was drawn from and its two coordinates.                     *)
(***************************************************************************)
means == <<<<-1, -1>>, <<1, 1>>, <<1, -1>>, <<-1, 1>>>>

\* int(n / 4): true division, then truncation toward zero
IntQuarter(n) == IF n >= 0 THEN n \div 4 ELSE -((-n) \div 4)

\* the labels as the docstring of lines 22-25 gives them
LabelOf_Docstring(i) == IF i < 2 THEN 0 ELSE 1

\* the label of the points of Gaussian i (from 0): int(i < 2), line 38
LabelOf(i) == IF i < 2 THEN 1 ELSE 0

\* np.cos and np.sin of angle_params * pi / 180 for the angle 0
Cos(deg) == 1
Sin(deg) == 0

\* lines 39-44: the rotation of one blob point
Rotate(b, deg) ==
    <<b[1] * Cos(deg) + b[2] * Sin(deg), (-b[1]) * Sin(deg) + b[2] * Cos(deg)>>

\* lines 28-45; noise[k] is the deviation of point k from its mean
generate_gaussian_parity(n, angle, noise) ==
    LET size == IntQuarter(n)
        center(k) == (k - 1) \div size
        blob == [k \in 1..(4 * size) |->
                    <<means[center(k) + 1][1] + noise[k][1],
                      means[center(k) + 1][2] + noise[k][2]>>]
    IN  IF size < 0
        THEN [status |-> "ValueError", X |-> <<>>, Y |-> <<>>]
        ELSE IF ~angle.given
        THEN [status |-> "TypeError", X |-> <<>>, Y |-> <<>>]
        ELSE [status |-> "ok",
              X |-> [k \in 1..(4 * size) |-> Rotate(blob[k], angle.deg)],
              Y |-> [k \in 1..(4 * size) |-> LabelOf(center(k))]]

(***************************************************************************)
(* Net.__init__, lines 56-81, and get_model, lines 116-128.  A module of   *)
(* self.sequential is a record; in_features and out_features are 0 for a   *)
(* module that is not Linear.                                              *)
(***************************************************************************)
Linear(i, o, bias) ==
    [type |-> "Linear", in_features |-> i, out_features |-> o, bias |-> bias]
Activation ==
    [type |-> "ReLU", in_features |-> 0, out_features |-> 0, bias |-> FALSE]
BatchNorm1d(n) ==
    [type |-> "BatchNorm1d", in_features |-> n, out_features |-> n, bias |-> FALSE]

\* module.append(activation); if bn: module.append(BatchNorm1d(width));
\* module.append(Linear(width, o))
Block(width, o, bias, bn) ==
    <<Activation>> \o (IF bn THEN <<BatchNorm1d(width)>> ELSE <<>>)
                   \o <<Linear(width, o, bias)>>

\* the loop of lines 63-67
RECURSIVE HiddenBlocks(_, _, _, _)
HiddenBlocks(n, hidden_size, bias, bn) ==
    IF n = 0 THEN <<>>
    ELSE Block(hidden_size, hidden_size, bias, bn)
         \o HiddenBlocks(n - 1, hidden_size, bias, bn)

NetInit(in_dim, out_dim, hidden_size, n_hidden, bias, penultimate, bn) ==
    <<Linear(in_dim, hidden_size, bias)>>
    \o HiddenBlocks(n_hidden, hidden_size, bias, bn)
    \o (IF penultimate THEN Block(hidden_size, 2, bias, bn) ELSE <<>>)
    \o Block(IF penultimate THEN 2 ELSE hidden_size, out_dim, bias, bn)

\* the Linear modules of a model, in order (line 450)
LinearLayers(seq) == SelectSeq(seq, LAMBDA mo : mo.type = "Linear")

NumLinear(seq) == Len(LinearLayers(seq))

\* model.cuda() with no CUDA device raises
get_model(hidden_size, n_hidden, in_dim, out_dim, penultimate, use_cuda, bn, cuda) ==
    IF use_cuda /\ ~cuda
    THEN [status |-> "CudaError", sequential |-> <<>>]
    ELSE [status |-> "ok",
          sequential |-> NetInit(in_dim, out_dim, hidden_size, n_hidden, TRUE,
                                 penultimate, bn)]

(***************************************************************************)
(* Gini impurity, lines 375-413.  A value is a fraction <<num, den>> with  *)
(* den > 0, or no value at all (status nan or ZeroDivisionError).          *)
(***************************************************************************)
FracMul(a, b) == <<a[1] * b[1], a[2] * b[2]>>
FracAdd(a, b) == <<a[1] * b[2] + b[1] * a[2], a[2] * b[2]>>
FracEq(a, b) == a[1] * b[2] = b[1] * a[2]
FracLeq(a, b) == a[1] * b[2] <= b[1] * a[2]

\* 2 * (P1 / (P1 + P2)) * P2, one division forgotten
GiniFraction_OneDivision(P1, P2) == <<2 * P1 * P2, P1 + P2>>

\* line 377 for denom # 0: 2 * (P1/denom) * (P2/denom)
GiniFraction(P1, P2) ==
    FracMul(FracMul(<<2, 1>>, <<P1, P1 + P2>>), <<P2, P1 + P2>>)

\* lines 375-378.  0/0 raises ZeroDivisionError for Python numbers and gives
\* nan for numpy scalars
gini_impurity(P1, P2, numpy) ==
    IF P1 + P2 = 0
    THEN [status |-> IF numpy THEN "nan" ELSE "ZeroDivisionError", value |-> <<0, 1>>]
    ELSE [status |-> "ok", value |-> GiniFraction(P1, P2)]

\* np.unique: the distinct values in increasing order
RECURSIVE SortedSeq(_)
SortedSeq(S) ==
    IF S = {} THEN <<>>
    ELSE LET lo == CHOOSE x \in S : \A y \in S : x <= y
         IN  <<lo>> \o SortedSeq(S \ {lo})

Unique(memberships) ==
    SortedSeq({memberships[k] : k \in 1..Len(memberships)})

\* predicts[polytope_memberships == l]
PredictsIn(memberships, preds, l) ==
    LET idx == SelectSeq([k \in 1..Len(preds) |-> k],
                         LAMBDA k : memberships[k] = l)
    IN  [q \in 1..Len(idx) |-> preds[idx[q]]]

RECURSIVE SumSeq(_, _)
SumSeq(xs, k) == IF k > Len(xs) THEN 0 ELSE xs[k] + SumSeq(xs, k + 1)

\* lines 390-393 for region l
RegionGini(memberships, preds, l) ==
    LET cur_l_idx == PredictsIn(memberships, preds, l)
        pos_count == SumSeq(cur_l_idx, 1)
        neg_count == Len(cur_l_idx) - pos_count
    IN  gini_impurity(pos_count, neg_count, TRUE)

RECURSIVE FracSum(_, _)
FracSum(gs, k) ==
    IF k > Len(gs) THEN <<0, 1>> ELSE FracAdd(gs[k].value, FracSum(gs, k + 1))

\* np.array(scores).mean(): nan for no scores or a nan score
Mean(gs) ==
    IF Len(gs) = 0 \/ \E k \in 1..Len(gs) : gs[k].status # "ok"
    THEN [status |-> "nan", value |-> <<0, 1>>]
    ELSE [status |-> "ok", value |-> FracMul(FracSum(gs, 1), <<1, Len(gs)>>)]

\* lines 386-394: gini_mean_score when the loop ends
GiniMeanScore(memberships, preds) ==
    LET ls == Unique(memberships)
    IN  [q \in 1..Len(ls) |-> RegionGini(memberships, preds, ls[q])]

gini_impurity_mean(memberships, preds) == Mean(GiniMeanScore(memberships, preds))

\* lines 403-413: every point gets its region's impurity
gini_impurity_list(memberships, preds) ==
    [k \in 1..Len(memberships) |-> RegionGini(memberships, preds, memberships[k])]

(***************************************************************************)
(* get_dataset, lines 131-182, and the pieces of run_experiment, lines     *)
(* 185-316, and extract_losses, lines 319-343.  A data object is known by  *)
(* the get_dataset call that made it and the repetition it was made in     *)
(* (-1: before the loop).  A metric value is known by its name and the     *)
(* repetition and capacity step that computed it.                          *)
(***************************************************************************)
\* N of line 198, hidden_size of line 116, width of line 185, the steps of
\* line 100
DatasetN == 1000
DefaultHiddenSize == 20
DefaultWidth == 3
TrainSteps == 1000

\* the points generate_gaussian_parity returns for n >= 0
NumGenerated(n) == 4 * IntQuarter(n)

Smaller(a, b) == IF a <= b THEN a ELSE b

\* lines 135-182.  With include_hybrid, line 153 moves each of the N // 10
\* hybrid sets to the device whether or not one exists
get_dataset(N, include_hybrid, cuda, call, in_rep) ==
    IF include_hybrid /\ N \div 10 > 0 /\ ~cuda
    THEN [status |-> "CudaError", call |-> call, in_rep |-> in_rep,
          n_train |-> 0, n_test |-> 0]
    ELSE [status |-> "ok", call |-> call, in_rep |-> in_rep,
          n_train |-> IF include_hybrid
                      THEN Smaller(N, NumGenerated(2 * N))
                      ELSE NumGenerated(N),
          n_test |-> NumGenerated(2 * N)]

\* lines 240-248: the model of capacity step i
StepModel(is_depth, i, cuda) ==
    IF is_depth
    THEN IF i < 5
         THEN get_model(i, i, 2, 1, FALSE, TRUE, FALSE, cuda)
         ELSE get_model(DefaultHiddenSize, i, 2, 1, FALSE, TRUE, FALSE, cuda)
    ELSE get_model(i, DefaultWidth, 2, 1, FALSE, TRUE, FALSE, cuda)

\* sum(p.numel() for p in model.parameters()), line 250
RECURSIVE NumParams(_, _)
NumParams(seq, k) ==
    IF k > Len(seq) THEN 0
    ELSE (IF seq[k].type = "Linear"
          THEN seq[k].in_features * seq[k].out_features
               + (IF seq[k].bias THEN seq[k].out_features ELSE 0)
          ELSE IF seq[k].type = "BatchNorm1d" THEN 2 * seq[k].out_features
          ELSE 0)
         + NumParams(seq, k + 1)

\* line 272: the grid is moved to the device whether or not one exists
GridStatus(cuda) == IF cuda THEN "ok" ELSE "CudaError"

Metric(name, r, i) == [metric |-> name, rep |-> r, step |-> i]

\* train_model's return value: TrainSteps losses, the last one named
LossTrace(r, i) == [length |-> TrainSteps, final |-> Metric("final_loss", r, i)]

\* lines 215-235
EmptyLists ==
    [bound |-> TRUE, losses_list |-> <<>>, num_pars |-> <<>>, num_poly |-> <<>>,
     hellinger_list |-> <<>>, gini_train |-> <<>>, gini_test |-> <<>>,
     train_loss_list |-> <<>>, test_loss_list |-> <<>>,
     train_acc_list |-> <<>>, test_acc_list |-> <<>>,
     avg_stab_list |-> <<>>, bias_list |-> <<>>, var_list |-> <<>>]

\* the names of the function not yet bound
UnboundLists == [EmptyLists EXCEPT !.bound = FALSE]

\* the appends of a step with the one to gini_test left out
AppendStep_NoGiniTest(ls, r, i, n_par) ==
    [ls EXCEPT
        !.losses_list = Append(@, LossTrace(r, i)),
        !.num_pars = Append(@, n_par),
        !.num_poly = Append(@, Metric("n_poly", r, i)),
        !.train_loss_list = Append(@, Metric("train_loss", r, i)),
        !.test_loss_list = Append(@, Metric("test_loss", r, i)),
        !.train_acc_list = Append(@, Metric("train_err", r, i)),
        !.test_acc_list = Append(@, Metric("test_err", r, i)),
        !.hellinger_list = Append(@, Metric("hellinger", r, i)),
        !.gini_train = Append(@, Metric("gini_train", r, i)),
        !.avg_stab_list = Append(@, 0),
        !.bias_list = Append(@, 0),
        !.var_list = Append(@, 0)]

\* lines 290-306
AppendStep(ls, r, i, n_par) ==
    [ls EXCEPT
        !.losses_list = Append(@, LossTrace(r, i)),
        !.num_pars = Append(@, n_par),
        !.num_poly = Append(@, Metric("n_poly", r, i)),
        !.train_loss_list = Append(@, Metric("train_loss", r, i)),
        !.test_loss_list = Append(@, Metric("test_loss", r, i)),
        !.train_acc_list = Append(@, Metric("train_err", r, i)),
        !.test_acc_list = Append(@, Metric("test_err", r, i)),
        !.hellinger_list = Append(@, Metric("hellinger", r, i)),
        !.gini_train = Append(@, Metric("gini_train", r, i)),
        !.gini_test = Append(@, Metric("gini_test", r, i)),
        !.avg_stab_list = Append(@, 0),
        !.bias_list = Append(@, 0),
        !.var_list = Append(@, 0)]

\* the entry of line 308
RepEntry(ls) ==
    <<ls.losses_list, ls.train_loss_list, ls.test_loss_list, ls.train_acc_list,
      ls.test_acc_list, ls.hellinger_list, ls.num_poly, ls.gini_train,
      ls.gini_test, ls.avg_stab_list, ls.bias_list, ls.var_list>>

\* lines 323-343
extract_losses(full) ==
    LET full_loss_list ==
            [r \in 1..Len(full) |->
                [q \in 1..Len(full[r][1]) |-> full[r][1][q].final]]
    IN  <<full_loss_list>>
        \o [idx \in 1..(Len(full[1]) - 1) |->
               [r \in 1..Len(full) |-> full[r][idx + 1]]]

\* lines 311-314: the fields of result, in the order of the unpacking
ResultOf(ls, full) ==
    LET ret == extract_losses(full)
    IN  [returned |-> TRUE, num_pars |-> ls.num_pars,
         full_loss_list |-> ret[1], train_loss_list |-> ret[2],
         test_loss_list |-> ret[3], test_err_list |-> ret[4],
         train_err_list |-> ret[5], hellinger_list |-> ret[6],
         poly_list |-> ret[7], gini_train |-> ret[8], gini_test |-> ret[9],
         avg_stab |-> ret[10], bias |-> ret[11], var |-> ret[12]]

NoResult ==
    [returned |-> FALSE, num_pars |-> <<>>, full_loss_list |-> <<>>,
     train_loss_list |-> <<>>, test_loss_list |-> <<>>, test_err_list |-> <<>>,
     train_err_list |-> <<>>, hellinger_list |-> <<>>, poly_list |-> <<>>,
     gini_train |-> <<>>, gini_test |-> <<>>, avg_stab |-> <<>>, bias |-> <<>>,
     var |-> <<>>]

NoData == [status |-> "none", call |-> 0, in_rep |-> -1, n_train |-> 0, n_test |-> 0]

(***************************************************************************)
(* The state of a component that a specification does not exercise.        *)
(***************************************************************************)
Uncalled == [status |-> "uncalled", poly |-> <<>>, act |-> <<>>]

IdIdle ==
    /\ pattern_a = <<>>
    /\ pattern_b = <<>>
    /\ ident_a = <<>>
    /\ ident_b = <<>>

PolyIdle ==
    /\ model = <<>>
    /\ train_x = <<>>
    /\ poly_ret = [pen \in BOOLEAN |-> Uncalled]

NetIdle ==
    /\ net_args = [in_dim |-> 0, out_dim |-> 0, hidden_size |-> 0, n_hidden |-> 0,
                   bias |-> FALSE, penultimate |-> FALSE, bn |-> FALSE]
    /\ sequential = <<>>

NoGpRet == [status |-> "uncalled", X |-> <<>>, Y |-> <<>>]

GpIdle ==
    /\ gp_n = 0
    /\ gp_angle = [given |-> FALSE, deg |-> 0]
    /\ gp_ret = NoGpRet

NoGiniRet ==
    [fn |-> "none", P1 |-> 0, P2 |-> 0, numpy |-> FALSE, status |-> "uncalled",
     value |-> <<0, 1>>, scores |-> <<>>]

GiniIdle ==
    /\ polytope_memberships = <<>>
    /\ predicts = <<>>
    /\ gini_ret = NoGiniRet

RunIdle ==
    /\ cuda_available = FALSE
    /\ depth = FALSE
    /\ iterations = 0
    /\ reps = 0
    /\ pc = "idle"
    /\ rep = 0
    /\ step_i = 0
    /\ dataset_calls = 0
    /\ data = NoData
    /\ lists = UnboundLists
    /\ rep_full_list = <<>>
    /\ run_error = "none"
    /\ result = NoResult
    /\ trained_on = <<>>

(***************************************************************************)
(* Specification SpecPoly: get_polytopes on a model and a batch.           *)
(***************************************************************************)
Widths == {1, 2}
InDims == {1, 2}
WeightKinds == {"neg", "alt"}
BiasVals == {-1, 1}
\* the batch's points, in halves: (-0.5, 1), (1, -0.5), (0.5, 0.5)
Points == {<<-1, 2>>, <<2, -1>>, <<1, 1>>}

WeightOf(kind, j, k) ==
    IF kind = "neg" THEN -1 ELSE IF (j + k) % 2 = 0 THEN 1 ELSE -1

LayerOf(i, o, kind, has_bias, b) ==
    [weight |-> [j \in 1..o |-> [k \in 1..i |-> WeightOf(kind, j, k)]],
     has_bias |-> has_bias,
     bias |-> IF has_bias THEN [j \in 1..o |-> b] ELSE <<>>]

LayersOf(i, has_bias) ==
    {LayerOf(i, o, kind, has_bias, b) :
        o \in Widths, kind \in WeightKinds,
        b \in IF has_bias THEN BiasVals ELSE {0}}

RECURSIVE ModelsFrom(_, _, _)
ModelsFrom(i, n, has_bias) ==
    IF n = 0 THEN {<<>>}
    ELSE UNION {{<<l>> \o rest : rest \in ModelsFrom(Len(l.weight), n - 1, has_bias)} :
                   l \in LayersOf(i, has_bias)}

Models ==
    UNION {ModelsFrom(i, n, has_bias) :
              i \in InDims, n \in 1..MaxLayers, has_bias \in BOOLEAN}

Batches == UNION {[1..m -> Points] : m \in 1..MaxBatch}

InitPoly ==
    /\ model \in Models
    /\ train_x \in Batches
    /\ poly_ret = [pen \in BOOLEAN |-> Uncalled]
    /\ IdIdle /\ NetIdle /\ GpIdle /\ GiniIdle /\ RunIdle

CallGetPolytopes ==
    /\ \E pen \in BOOLEAN :
          /\ poly_ret[pen].status = "uncalled"
          /\ poly_ret' = [poly_ret EXCEPT ![pen] = get_polytopes(model, train_x, pen)]
    /\ UNCHANGED <<model, train_x>>
    /\ UNCHANGED <<idVars, netVars, gpVars, giniVars, runVars>>

NextPoly == CallGetPolytopes

SpecPoly == InitPoly /\ [][NextPoly]_vars

(***************************************************************************)
(* Claims about get_polytopes.                                             *)
(***************************************************************************)
Returned(pen) == poly_ret[pen].status # "uncalled"

\* the batch is as wide as the model's first layer expects
InputWidthMatches ==
    \A p \in 1..Len(train_x) : Len(train_x[p]) = Len(model[1].weight[1])

\* the last layer's preactivation of the batch, before its mask
LastPreActivation ==
    LayerLoop(model, 1, train_x, <<>>, <<>>, FALSE, <<>>).preacts[Len(model)]

\* some last-layer preactivation is <= 0.5 and not 0
SomeMaskedNonZero ==
    \E p \in 1..Len(LastPreActivation) :
        \E j \in 1..Len(LastPreActivation[p]) :
            LastPreActivation[p][j] <= 1 /\ LastPreActivation[p][j] # 0

\* C2: in penultimate mode the second output is the last layer's
\* preactivation before the final mask, and it differs from the masked
\* activations of the other mode when some such value is <= 0.5 and not 0
C2_PenultimateIsUnmasked ==
    (poly_ret[TRUE].status = "ok" /\ poly_ret[FALSE].status = "ok") =>
        /\ poly_ret[TRUE].act = LastPreActivation
        /\ SomeMaskedNonZero => poly_ret[TRUE].act # poly_ret[FALSE].act

\* C8: get_polytopes fails only on a batch whose width differs from the
\* model's input width, with or without bias vectors
C8_OnlyShapeMismatchFails ==
    \A pen \in BOOLEAN :
        (Returned(pen) /\ InputWidthMatches) => poly_ret[pen].status = "ok"

\* C10: the number of distinct Region Identifiers of a non-empty batch of m
\* points through U units is at least 1, at most 2^U and at most m
C10_RegionCountBound ==
    \A pen \in BOOLEAN :
        poly_ret[pen].status = "ok" =>
            /\ NumPoly(poly_ret[pen].poly) >= 1
            /\ NumPoly(poly_ret[pen].poly) <= 2 ^ TotalUnits(model, 1)
            /\ NumPoly(poly_ret[pen].poly) <= Len(train_x)

\* a batch with more points than the units can tell apart, every pattern
\* of the units taken
C10_Witness ==
    /\ poly_ret[FALSE].status = "ok"
    /\ Len(train_x) > 2 ^ TotalUnits(model, 1)
    /\ NumPoly(poly_ret[FALSE].poly) = 2 ^ TotalUnits(model, 1)

\* the loop's record for the state's model and batch
Loop == LayerLoop(model, 1, train_x, <<>>, <<>>, FALSE, <<>>)

\* a unit's value after the gate: its preactivation if its bit is 1, else 0
Gated(pre, bit) == IF bit = 1 THEN pre ELSE 0

\* the preactivation of unit j of layer k for point p from the gated values
\* of layer k - 1
PreFromGated(loop, k, p, j) ==
    LET prev == [q \in 1..Len(model[k - 1].weight) |->
                    Gated(loop.preacts[k - 1][p][q], loop.memberships[k - 1][p][q])]
    IN  DotFrom(prev, model[k].weight[j], 1) + model[k].bias[j]

\* C12: in model order, a unit's mask bit is 1 exactly when its
\* preactivation is > 0, or > 0.5 (one half, the value 1 here) in the last
\* layer, and the next layer's input is the preactivation times the mask
C12_MaskAndGate ==
    poly_ret[FALSE].status = "ok" =>
        LET loop == Loop
        IN  /\ Len(loop.memberships) = Len(model)
            /\ \A k \in 1..Len(model) : \A p \in 1..Len(train_x) :
                  \A j \in 1..Len(model[k].weight) :
                      /\ loop.memberships[k][p][j] \in {0, 1}
                      /\ loop.memberships[k][p][j] = 1
                            <=> (IF k = Len(model)
                                 THEN loop.preacts[k][p][j] > 1
                                 ELSE loop.preacts[k][p][j] > 0)
                      /\ k > 1 => loop.preacts[k][p][j] = PreFromGated(loop, k, p, j)
                      /\ k = Len(model) =>
                            poly_ret[FALSE].act[p][j]
                                = Gated(loop.preacts[k][p][j], loop.memberships[k][p][j])
            /\ \A p \in 1..Len(train_x) :
                  poly_ret[FALSE].poly[p] = RegionId(ConcatRow(loop.memberships, p, 1))

\* two layers: a hidden unit is gated to 0 from a negative preactivation,
\* another passes, and a last-layer preactivation of exactly 0.5 gets bit 0
C12_Witness ==
    /\ poly_ret[FALSE].status = "ok"
    /\ Len(model) = 2
    /\ \E p \in 1..Len(train_x) : \E j \in 1..Len(model[1].weight) :
          Loop.preacts[1][p][j] < 0 /\ Loop.memberships[1][p][j] = 0
    /\ \E p \in 1..Len(train_x) : \E j \in 1..Len(model[1].weight) :
          Loop.preacts[1][p][j] > 0 /\ Loop.memberships[1][p][j] = 1
    /\ \E p \in 1..Len(train_x) : \E j \in 1..Len(model[2].weight) :
          Loop.preacts[2][p][j] = 1 /\ Loop.memberships[2][p][j] = 0

(***************************************************************************)
(* Specification SpecNet: the construction of a Net.                       *)
(***************************************************************************)
InitNet ==
    /\ net_args \in [in_dim : {2}, out_dim : {1, 2}, hidden_size : 1..MaxHidden,
                     n_hidden : 0..MaxHidden, bias : BOOLEAN,
                     penultimate : BOOLEAN, bn : BOOLEAN]
    /\ sequential = <<>>
    /\ IdIdle /\ PolyIdle /\ GpIdle /\ GiniIdle /\ RunIdle

Construct ==
    /\ sequential = <<>>
    /\ sequential' = NetInit(net_args.in_dim, net_args.out_dim,
                             net_args.hidden_size, net_args.n_hidden,
                             net_args.bias, net_args.penultimate, net_args.bn)
    /\ UNCHANGED net_args
    /\ UNCHANGED <<idVars, polyVars, gpVars, giniVars, runVars>>

NextNet == Construct

SpecNet == InitNet /\ [][NextNet]_vars

\* the module after Linear module k is the nonlinearity
FollowedByActivation(seq, k) == k < Len(seq) /\ seq[k + 1].type = "ReLU"

LastLinearAt(seq) ==
    CHOOSE k \in 1..Len(seq) :
        seq[k].type = "Linear" /\ \A q \in (k + 1)..Len(seq) : seq[q].type # "Linear"

\* C6: a Net holds n_hidden + 1 Linear layers, one more with the penultimate
\* projection, and every Linear layer but the last is followed by the
\* nonlinearity
C6_AffineLayerCount ==
    sequential # <<>> =>
        /\ NumLinear(sequential)
              = net_args.n_hidden + 1 + (IF net_args.penultimate THEN 1 ELSE 0)
        /\ \A k \in 1..Len(sequential) :
              (sequential[k].type = "Linear" /\ k # LastLinearAt(sequential))
                  => FollowedByActivation(sequential, k)

(***************************************************************************)
(* Specification SpecGp: a call of generate_gaussian_parity.               *)
(***************************************************************************)
\* the deviations from the mean a drawn point may have
Deviations == {<<0, 0>>, <<1, -2>>}

InitGp ==
    /\ gp_n \in (-MaxN)..MaxN
    /\ gp_angle \in [given : BOOLEAN, deg : {0}]
    /\ gp_ret = NoGpRet
    /\ IdIdle /\ PolyIdle /\ NetIdle /\ GiniIdle /\ RunIdle

CallGenerate ==
    /\ gp_ret.status = "uncalled"
    /\ \E noise \in [1..(4 * IntQuarter(gp_n)) -> Deviations] :
          gp_ret' = generate_gaussian_parity(gp_n, gp_angle, noise)
    /\ UNCHANGED <<gp_n, gp_angle>>
    /\ UNCHANGED <<idVars, polyVars, netVars, giniVars, runVars>>

NextGp == CallGenerate

SpecGp == InitGp /\ [][NextGp]_vars

ValidCount(n) == n > 0 /\ n % 4 = 0

\* C4: a sample count that is not a positive multiple of 4 is answered by
\* an error, never by a dataset of fewer than n points
C4_InvalidCountSignalled ==
    (gp_ret.status # "uncalled" /\ ~ValidCount(gp_n)) =>
        gp_ret.status \in {"ValueError", "TypeError"}

\* the Gaussian (1..4, in the order of means) a returned point was drawn from
CenterOf(x) ==
    CHOOSE c \in 1..4 :
        \E d \in Deviations : x = <<means[c][1] + d[1], means[c][2] + d[2]>>

CountOnes(Y) == Cardinality({k \in 1..Len(Y) : Y[k] = 1})
CountZeros(Y) == Cardinality({k \in 1..Len(Y) : Y[k] = 0})

RegionLabels == {0, 1, 2}

InitGini ==
    /\ \E m \in 0..MaxPoints :
          /\ polytope_memberships \in [1..m -> RegionLabels]
          /\ predicts \in [1..m -> {0, 1}]
    /\ gini_ret = NoGiniRet
    /\ IdIdle /\ PolyIdle /\ NetIdle /\ GpIdle /\ RunIdle

CallGiniImpurity ==
    /\ gini_ret.fn = "none"
    /\ \E P1 \in 0..MaxCount, P2 \in 0..MaxCount, numpy \in BOOLEAN :
          gini_ret' = [fn |-> "gini_impurity", P1 |-> P1, P2 |-> P2,
                       numpy |-> numpy,
                       status |-> gini_impurity(P1, P2, numpy).status,
                       value |-> gini_impurity(P1, P2, numpy).value,
                       scores |-> <<>>]
    /\ UNCHANGED <<polytope_memberships, predicts>>
    /\ UNCHANGED <<idVars, polyVars, netVars, gpVars, runVars>>

CallGiniImpurityMean ==
    /\ gini_ret.fn = "none"
    /\ gini_ret' = [fn |-> "gini_impurity_mean", P1 |-> 0, P2 |-> 0,
                    numpy |-> TRUE,
                    status |-> gini_impurity_mean(polytope_memberships, predicts).status,
                    value |-> gini_impurity_mean(polytope_memberships, predicts).value,
                    scores |-> GiniMeanScore(polytope_memberships, predicts)]
    /\ UNCHANGED <<polytope_memberships, predicts>>
    /\ UNCHANGED <<idVars, polyVars, netVars, gpVars, runVars>>

CallGiniImpurityList ==
    /\ gini_ret.fn = "none"
    /\ gini_ret' = [fn |-> "gini_impurity_list", P1 |-> 0, P2 |-> 0,
                    numpy |-> TRUE, status |-> "ok", value |-> <<0, 1>>,
                    scores |-> gini_impurity_list(polytope_memberships, predicts)]
    /\ UNCHANGED <<polytope_memberships, predicts>>
    /\ UNCHANGED <<idVars, polyVars, netVars, gpVars, runVars>>

NextGini == CallGiniImpurity \/ CallGiniImpurityMean \/ CallGiniImpurityList

SpecGini == InitGini /\ [][NextGini]_vars

Half == <<1, 2>>
Zero == <<0, 1>>

InBounds(g) == g.status = "ok" /\ FracLeq(Zero, g.value) /\ FracLeq(g.value, Half)

\* C5: gini_impurity of an empty region (P1 + P2 = 0) gives impurity 0; it
\* neither raises nor gives an undefined value
C5_EmptyRegionHandled ==
    (gini_ret.fn = "gini_impurity" /\ gini_ret.P1 + gini_ret.P2 = 0) =>
        (gini_ret.status = "ok" /\ FracEq(gini_ret.value, Zero))

\* C9: for counts with P1 + P2 > 0 the impurity lies in [0, 0.5], is 0.5
\* only for P1 = P2 and is 0 when a count is 0; every per-region value of
\* gini_impurity_mean and gini_impurity_list lies in [0, 0.5]
C9_GiniBounds ==
    /\ (gini_ret.fn = "gini_impurity" /\ gini_ret.P1 + gini_ret.P2 > 0) =>
          /\ InBounds(gini_ret)
          /\ FracEq(gini_ret.value, Half) => gini_ret.P1 = gini_ret.P2
          /\ (gini_ret.P1 = 0 \/ gini_ret.P2 = 0) => FracEq(gini_ret.value, Zero)
    /\ gini_ret.fn \in {"gini_impurity_mean", "gini_impurity_list"} =>
          \A k \in 1..Len(gini_ret.scores) : InBounds(gini_ret.scores[k])

\* a batch with a balanced region and a pure one went through
\* gini_impurity_mean
C9_Witness ==
    /\ gini_ret.fn = "gini_impurity_mean"
    /\ \E k \in 1..Len(gini_ret.scores) : FracEq(gini_ret.scores[k].value, Half)
    /\ \E k \in 1..Len(gini_ret.scores) : FracEq(gini_ret.scores[k].value, Zero)

(***************************************************************************)
(* Specification SpecRun: a call of run_experiment.                        *)
(***************************************************************************)
InitRun ==
    /\ cuda_available \in BOOLEAN
    /\ depth \in BOOLEAN
    /\ iterations \in 1..MaxIterations
    /\ reps \in 0..MaxReps
    /\ pc = "start"
    /\ rep = 0
    /\ step_i = 0
    /\ dataset_calls = 0
    /\ data = NoData
    /\ lists = UnboundLists
    /\ rep_full_list = <<>>
    /\ run_error = "none"
    /\ result = NoResult
    /\ trained_on = <<>>
    /\ IdIdle /\ PolyIdle /\ NetIdle /\ GpIdle /\ GiniIdle

\* lines 190-200: the grid, the true posterior, the one get_dataset call
RunStart ==
    /\ pc = "start"
    /\ LET ds == get_dataset(DatasetN, TRUE, cuda_available, dataset_calls + 1, -1)
       IN  /\ dataset_calls' = dataset_calls + 1
           /\ IF ds.status = "ok"
              THEN data' = ds /\ pc' = "rep_loop" /\ run_error' = "none"
              ELSE data' = data /\ pc' = "error" /\ run_error' = ds.status
    /\ UNCHANGED <<cuda_available, depth, iterations, reps, rep, step_i, lists,
                   rep_full_list, result, trained_on>>
    /\ UNCHANGED <<idVars, polyVars, netVars, gpVars, giniVars>>

\* lines 202-235: a repetition begins with empty lists
BeginRep ==
    /\ pc = "rep_loop"
    /\ rep < reps
    /\ lists' = EmptyLists
    /\ step_i' = 1
    /\ pc' = "step_loop"
    /\ UNCHANGED <<cuda_available, depth, iterations, reps, rep, dataset_calls,
                   data, rep_full_list, run_error, result, trained_on>>
    /\ UNCHANGED <<idVars, polyVars, netVars, gpVars, giniVars>>

\* lines 237-306: one capacity step, from get_model to the appends
CapacityStep ==
    /\ pc = "step_loop"
    /\ step_i < iterations
    /\ LET m == StepModel(depth, step_i, cuda_available)
       IN  IF m.status # "ok" \/ GridStatus(cuda_available) # "ok"
           THEN /\ pc' = "error"
                /\ run_error' = "CudaError"
                /\ UNCHANGED <<lists, step_i, trained_on>>
           ELSE /\ lists' = AppendStep(lists, rep, step_i, NumParams(m.sequential, 1))
                /\ trained_on' = Append(trained_on,
                                        [rep |-> rep, step |-> step_i,
                                         call |-> data.call, in_rep |-> data.in_rep])
                /\ step_i' = step_i + 1
                /\ UNCHANGED <<pc, run_error>>
    /\ UNCHANGED <<cuda_available, depth, iterations, reps, rep, dataset_calls,
                   data, rep_full_list, result>>
    /\ UNCHANGED <<idVars, polyVars, netVars, gpVars, giniVars>>

\* lines 308-309: the repetition's lists join rep_full_list
EndRep ==
    /\ pc = "step_loop"
    /\ step_i >= iterations
    /\ rep_full_list' = Append(rep_full_list, RepEntry(lists))
    /\ rep' = rep + 1
    /\ pc' = "rep_loop"
    /\ UNCHANGED <<cuda_available, depth, iterations, reps, step_i,
                   dataset_calls, data, lists, run_error, result, trained_on>>
    /\ UNCHANGED <<idVars, polyVars, netVars, gpVars, giniVars>>

\* lines 311-316; with no repetition num_pars was never bound
Finish ==
    /\ pc = "rep_loop"
    /\ rep >= reps
    /\ IF ~lists.bound
       THEN pc' = "error" /\ run_error' = "UnboundLocalError" /\ result' = result
       ELSE pc' = "done" /\ run_error' = run_error
            /\ result' = ResultOf(lists, rep_full_list)
    /\ UNCHANGED <<cuda_available, depth, iterations, reps, rep, step_i,
                   dataset_calls, data, lists, rep_full_list, trained_on>>
    /\ UNCHANGED <<idVars, polyVars, netVars, gpVars, giniVars>>

NextRun == RunStart \/ BeginRep \/ CapacityStep \/ EndRep \/ Finish

SpecRun == InitRun /\ [][NextRun]_vars

\* C3: the dataset generator is invoked once per repetition, and a capacity
\* step runs on data made in its own repetition, never on data made before
\* the loop or in another repetition
C3_FreshDataPerRepetition ==
    /\ pc = "done" => dataset_calls = reps
    /\ \A k \in 1..Len(trained_on) : trained_on[k].in_rep = trained_on[k].rep

\* C7: with no accelerator device run_experiment is not stopped by a step
\* that needs one: get_dataset with include_hybrid, get_model with its
\* default use_cuda and the grid evaluation all work on the host
C7_HostOnlyCompletes ==
    ~cuda_available =>
        /\ run_error # "CudaError"
        /\ pc \notin {"idle", "start"} =>
              /\ get_dataset(DatasetN, TRUE, cuda_available, 1, -1).status = "ok"
              /\ StepModel(depth, 1, cuda_available).status = "ok"
              /\ GridStatus(cuda_available) = "ok"

\* the per-repetition lines, every list of lines 215-235 that a step appends to
RepLists(ls) ==
    <<ls.losses_list, ls.num_pars, ls.num_poly, ls.hellinger_list,
      ls.gini_train, ls.gini_test, ls.train_loss_list, ls.test_loss_list,
      ls.train_acc_list, ls.test_acc_list, ls.avg_stab_list, ls.bias_list,
      ls.var_list>>

\* the metric arrays of the result
ResultArrays(res) ==
    <<res.full_loss_list, res.train_loss_list, res.test_loss_list,
      res.test_err_list, res.train_err_list, res.hellinger_list, res.poly_list,
      res.gini_train, res.gini_test, res.avg_stab, res.bias, res.var>>

\* C13: within a repetition the steps run for i = 1 .. iterations - 1 in
\* increasing order, step i on a model built for it, and when step i starts
\* every list of the repetition holds exactly i - 1 entries, those of steps
\* 1 .. i - 1; every metric array of the result returned has shape
\* [reps, iterations - 1] and result.num_pars has length iterations - 1
C13_SequentialSteps ==
    /\ pc = "step_loop" =>
          /\ step_i \in 1..iterations
          /\ \A q \in 1..Len(RepLists(lists)) :
                Len(RepLists(lists)[q]) = step_i - 1
          /\ \A k \in 1..(step_i - 1) :
                /\ lists.losses_list[k] = LossTrace(rep, k)
                /\ lists.train_loss_list[k] = Metric("train_loss", rep, k)
                /\ lists.gini_test[k] = Metric("gini_test", rep, k)
                /\ lists.num_pars[k]
                      = NumParams(StepModel(depth, k, cuda_available).sequential, 1)
    /\ result.returned =>
          /\ Len(result.num_pars) = iterations - 1
          /\ \A q \in 1..Len(ResultArrays(result)) :
                /\ Len(ResultArrays(result)[q]) = reps
                /\ \A r \in 1..reps :
                      Len(ResultArrays(result)[q][r]) = iterations - 1

\* a result of several repetitions of several steps was returned
C13_Witness ==
    /\ result.returned
    /\ reps = 2
    /\ iterations = 3
    /\ Len(result.gini_test) = 2
    /\ Len(result.gini_test[2]) = 2

\* C14: every field of the result holds the metric its name states:
\* train_err_list the train errors, test_err_list the test errors,
\* train_loss_list and test_loss_list the train and test losses, each at
\* [repetition][step]
C14_FieldsHoldTheirMetric ==
    result.returned =>
        \A r \in 1..reps : \A q \in 1..(iterations - 1) :
            /\ result.train_err_list[r][q] = Metric("train_err", r - 1, q)
            /\ result.test_err_list[r][q] = Metric("test_err", r - 1, q)
            /\ result.train_loss_list[r][q] = Metric("train_loss", r - 1, q)
            /\ result.test_loss_list[r][q] = Metric("test_loss", r - 1, q)

(***************************************************************************)
(* Specification SpecId: identifiers of two patterns of equal length.      *)
(***************************************************************************)
\* the positions (from 0) at which the patterns drawn may have a 1
Probes(U) == {0, 1, U - 2, U - 1} \cap (0..(U - 1))

PatternOf(U, S) == [i \in 1..U |-> IF (i - 1) \in S THEN 1 ELSE 0]

Patterns(U) == {PatternOf(U, S) : S \in SUBSET Probes(U)}

InitId ==
    /\ \E U \in 1..MaxPatternLen :
          /\ pattern_a \in Patterns(U)
          /\ pattern_b \in Patterns(U)
    /\ ident_a = <<>>
    /\ ident_b = <<>>
    /\ PolyIdle /\ NetIdle /\ GpIdle /\ GiniIdle /\ RunIdle

Encode ==
    /\ ident_a = <<>>
    /\ ident_a' = RegionId(pattern_a)
    /\ ident_b' = RegionId(pattern_b)
    /\ UNCHANGED <<pattern_a, pattern_b>>
    /\ UNCHANGED <<polyVars, netVars, gpVars, giniVars, runVars>>

NextId == Encode

SpecId == InitId /\ [][NextId]_vars

\* C1: patterns of equal length have equal identifiers exactly when they
\* are equal, for every pattern length the analyser produces
C1_IdentifierInjective ==
    ident_a # <<>> => ((pattern_a = pattern_b) <=> (ident_a = ident_b))

====
